---------------------------- MODULE Spec2Model ----------------------------
(***************************************************************************)
(* A model of custom-qmood.py: the row matcher (match_files), the merge    *)
(* engine (merge_csvs), the metric recalculator                            *)
(* (recalculate_qmood_metrics) and the driver (main).                      *)
(*                                                                         *)
(* Strings are sequences of one-character strings, so that basename, the   *)
(* ".java" suffix test and lower() are computed and not assumed.  A cell   *)
(* value is a record with a kind: a string, a number, or the missing value *)
(* (the NaN read_csv produces for an empty cell, the pd.NA of an added     *)
(* column).  A table is a record of its ordered column names and its       *)
(* ordered rows, each row a function from column name to cell value; rows  *)
(* are numbered from 1 (pandas' RangeIndex label k is row k+1 here).       *)
(***************************************************************************)
EXTENDS Integers, Sequences, FiniteSets, TLC

VARIABLES
    pc,                 \* position of the driver / the function under study
    base_df,            \* main: base_df (line 212)
    override_df,        \* main: override_df (line 215)
    add_columns,        \* main: add_columns (lines 218-220)
    result_df,          \* merge_csvs: result_df, then main: merged_df
    used_override_rows, \* merge_csvs: used_override_rows (line 119)
    i,                  \* merge_csvs: position of the outer loop (line 122)
    j,                  \* merge_csvs: position of the inner loop (line 124)
    unused_rows,        \* merge_csvs: unused_rows (line 153)
    failed_in,          \* main: the step whose exception reached line 236
    row1,               \* match_files: its first argument
    row2,               \* match_files: its second argument
    matched,            \* match_files: its outcome
    df,                 \* recalculate_qmood_metrics: its argument
    df_alt,             \* a second argument, one change away from df
    change,             \* what the change from df to df_alt is
    out1,               \* recalculate_qmood_metrics(df)
    out2,               \* recalculate_qmood_metrics(out1)
    out_alt             \* recalculate_qmood_metrics(df_alt)

vars == <<pc, base_df, override_df, add_columns, result_df, used_override_rows,
          i, j, unused_rows, failed_in, row1, row2, matched,
          df, df_alt, change, out1, out2, out_alt>>

---------------------------------------------------------------------------
(* Strings and cell values *)

Range(s) == {s[k] : k \in DOMAIN s}

UpperToLower ==
    [A |-> "a", B |-> "b", C |-> "c", D |-> "d", E |-> "e", F |-> "f",
     G |-> "g", H |-> "h", I |-> "i", J |-> "j", K |-> "k", L |-> "l",
     M |-> "m", N |-> "n", O |-> "o", P |-> "p", Q |-> "q", R |-> "r",
     S |-> "s", T |-> "t", U |-> "u", V |-> "v", W |-> "w", X |-> "x",
     Y |-> "y", Z |-> "z"]

\* str.lower(), character by character
Lower(s) ==
    [k \in DOMAIN s |->
        IF s[k] \in DOMAIN UpperToLower THEN UpperToLower[s[k]] ELSE s[k]]

\* str.endswith
EndsWith(s, suffix) ==
    /\ Len(s) >= Len(suffix)
    /\ SubSeq(s, Len(s) - Len(suffix) + 1, Len(s)) = suffix

\* os.path.basename (posixpath): what follows the last "/"
Basename(s) ==
    LET slashes == {k \in DOMAIN s : s[k] = "/"}
        last == IF slashes = {} THEN 0
                ELSE CHOOSE k \in slashes : \A m \in slashes : m <= k
    IN SubSeq(s, last + 1, Len(s))

Str(s) == [k |-> "str", s |-> s, n |-> 0]
Num(n) == [k |-> "num", s |-> <<>>, n |-> n]
NaN == [k |-> "nan", s |-> <<>>, n |-> 0]

\* Python's == on two cell values: NaN equals nothing, itself included
PyEq(a, b) == a.k # "nan" /\ b.k # "nan" /\ a = b

DotJava == <<".", "j", "a", "v", "a">>

\* The outcome of a call: a value, or an exception
Ok(v) == [ok |-> TRUE, v |-> v]
Raise == [ok |-> FALSE, v |-> <<>>]

\* extract_class_name: os.path.basename raises TypeError on a value that is
\* no string
extract_class_name(filepath) ==
    IF filepath.k # "str" THEN Raise
    ELSE LET base_name == Basename(filepath.s)
         IN IF EndsWith(base_name, DotJava)
            THEN Ok(SubSeq(base_name, 1, Len(base_name) - 5))
            ELSE Ok(base_name)

\* Column names
cClassNames == <<"C", "l", "a", "s", "s", "N", "a", "m", "e", "s">>
cName == <<"N", "a", "m", "e">>
cClass == <<"c", "l", "a", "s", "s">>
cFile == <<"f", "i", "l", "e">>

\* The file-name comparison of match_files (lines 83-89) alone
match_by_file(r1, r2) ==
    IF cName \in DOMAIN r1 /\ cFile \in DOMAIN r2
    THEN LET base_file == extract_class_name(r1[cName])
             override_file == extract_class_name(r2[cFile])
         IN IF ~base_file.ok \/ ~override_file.ok THEN "raise"
            ELSE IF Lower(base_file.v) = Lower(override_file.v) THEN "true"
            ELSE "false"
    ELSE "false"

\* A slip: the class-name rule decides alone whenever it is applicable
match_files_first_rule_only(r1, r2) ==
    IF cClassNames \in DOMAIN r1 /\ cClass \in DOMAIN r2
    THEN IF PyEq(r1[cClassNames], r2[cClass]) THEN "true" ELSE "false"
    ELSE match_by_file(r1, r2)

\* match_files: "true", "false", or "raise" when an exception leaves it
match_files(r1, r2) ==
    IF /\ cClassNames \in DOMAIN r1 /\ cClass \in DOMAIN r2
       /\ PyEq(r1[cClassNames], r2[cClass])
    THEN "true"
    ELSE match_by_file(r1, r2)

---------------------------------------------------------------------------
(* Tables *)

cDCC == <<"D", "C", "C">>
cdcc == <<"d", "c", "c">>
cX == <<"X">>
cY == <<"Y">>
cZ == <<"Z">>

Table(columns, rows) == [columns |-> columns, rows |-> rows]
EmptyTable == Table(<<>>, <<>>)

\* col in frame.columns
HasColumn(t, col) == col \in Range(t.columns)

\* A slip: the added column starts at zero instead of empty
NewColumnValue_zero == Num(0)

\* The value pd.NA of a column added at line 115
NewColumnValue == NaN

\* frame[col] = scalar: a new last column (line 115), or an existing column
\* overwritten (line 200)
SetColumn(t, col, v) ==
    Table(IF HasColumn(t, col) THEN t.columns ELSE Append(t.columns, col),
          [r \in DOMAIN t.rows |->
              [c \in DOMAIN t.rows[r] \cup {col} |->
                  IF c = col THEN v ELSE t.rows[r][c]]])

\* frame.at[r, col] = v: sets one cell; a row label or a column the frame
\* lacks enlarges the frame by a row or a column of missing values
at_set(t, r, col, v) ==
    LET wide == IF HasColumn(t, col) THEN t ELSE SetColumn(t, col, NaN)
        tall == IF r \in DOMAIN wide.rows THEN wide
                ELSE Table(wide.columns,
                           Append(wide.rows, [c \in Range(wide.columns) |-> NaN]))
        at == IF r \in DOMAIN wide.rows THEN r ELSE Len(tall.rows)
    IN Table(tall.columns, [tall.rows EXCEPT ![at][col] = v])

\* add_columns: None, or the list parsed at line 220
NoColumns == [given |-> FALSE, cols |-> <<>>]
Columns(cols) == [given |-> TRUE, cols |-> cols]

\* col in add_columns, guarded as at lines 133 and 146
InAddColumns(add, col) == add.given /\ col \in Range(add.cols)

\* Lines 111-116: each requested column the override table has and the result
\* lacks is appended, empty
RECURSIVE AddColumns(_, _, _)
AddColumns(res, ovr, cols) ==
    IF cols = <<>> THEN res
    ELSE LET col == Head(cols)
             next == IF HasColumn(ovr, col) /\ ~HasColumn(res, col)
                     THEN SetColumn(res, col, NewColumnValue)
                     ELSE res
         IN AddColumns(next, ovr, Tail(cols))

\* A slip: the base column must equal the override column exactly
matching_cols_exact(base, col) ==
    SelectSeq(base.columns, LAMBDA c : c = col)

\* Line 138: the base columns equal to col when case is ignored, in order
matching_cols(base, col) ==
    SelectSeq(base.columns, LAMBDA c : Lower(c) = Lower(col))

\* Lines 129-147: the override row's values written into row r of the result,
\* one override column after the other
RECURSIVE override_values(_, _, _, _, _, _)
override_values(res, base, add, r, override_row, cols) ==
    IF cols = <<>> THEN res
    ELSE LET col == Head(cols)
             found == matching_cols(base, col)
             next ==
                 IF InAddColumns(add, col)
                 THEN at_set(res, r, col, override_row[col])
                 ELSE IF found # <<>>
                      THEN at_set(res, r, found[1], override_row[col])
                      ELSE res
         IN override_values(next, base, add, r, override_row, Tail(cols))

\* A slip: the cell is addressed by the override row's label
merge_match_at_j(res, base, ovr, add, ii, jj) ==
    override_values(res, base, add, jj, ovr.rows[jj], ovr.columns)

\* Lines 125-147: base row ii matched override row jj
merge_match(res, base, ovr, add, ii, jj) ==
    override_values(res, base, add, ii, ovr.rows[jj], ovr.columns)

\* A slip: the base row's label is recorded
used_add_i(used, ii, jj) == used \cup {ii}

\* Line 149: used_override_rows.add(j)
used_add(used, ii, jj) == used \cup {jj}

\* A slip: no break, the scan goes on to the next override row
after_match_continue(ii, jj, n_override) ==
    IF jj < n_override THEN <<ii, jj + 1>> ELSE <<ii + 1, 1>>

\* Line 150: break, on to the next base row
after_match(ii, jj, n_override) == <<ii + 1, 1>>

---------------------------------------------------------------------------
(* The inputs of a run: the two tables read_csv returns, and add_columns *)

MaxBaseRows == 2
MaxOvrRows == 2

sA == <<"A">>
sB == <<"B">>
sC == <<"C">>
pA_java == <<"A", ".", "j", "a", "v", "a">>
pd_a_java == <<"d", "/", "a", ".", "j", "a", "v", "a">>
pa_java == <<"a", ".", "j", "a", "v", "a">>
pB_java == <<"B", ".", "j", "a", "v", "a">>
pC_java == <<"C", ".", "j", "a", "v", "a">>

\* The identity cells of a base row: its ClassNames and its Name (an empty
\* Name cell is read as NaN)
BaseKeys ==
    { [class |-> Str(sA), file |-> Str(pA_java)],
      [class |-> Str(sB), file |-> Str(pd_a_java)],
      [class |-> Str(sA), file |-> NaN] }

\* The identity cells of an override row: its class and its file
OvrKeys ==
    { [class |-> Str(sA), file |-> Str(pB_java)],
      [class |-> Str(sB), file |-> Str(pa_java)],
      [class |-> Str(sC), file |-> Str(pC_java)] }

\* The column layouts of the two tables and the --add-columns list
Layouts ==
    { [b |-> <<cName, cDCC>>, o |-> <<cFile, cDCC>>, a |-> NoColumns],
      [b |-> <<cName, cDCC>>, o |-> <<cFile, cdcc, cX>>, a |-> Columns(<<cX>>)],
      [b |-> <<cName, cDCC>>, o |-> <<cFile, cdcc, cX>>, a |-> Columns(<<cdcc, cZ>>)],
      [b |-> <<cClassNames, cName, cDCC>>, o |-> <<cClass, cFile, cdcc, cY>>,
       a |-> NoColumns],
      [b |-> <<cClassNames, cName, cDCC>>, o |-> <<cClass, cFile, cdcc, cX>>,
       a |-> Columns(<<cX, cZ>>)],
      [b |-> <<cClassNames, cDCC, cdcc>>, o |-> <<cClass, cDCC, cdcc, cX>>,
       a |-> Columns(<<cDCC>>)],
      [b |-> <<cClassNames, cdcc, cDCC>>, o |-> <<cClass, cDCC, cdcc>>,
       a |-> NoColumns],
      [b |-> <<cDCC>>, o |-> <<cFile, cDCC, cX>>, a |-> Columns(<<cX>>)] }

IndexOf(seq, x) == CHOOSE k \in DOMAIN seq : seq[k] = x

\* A table whose identity cells are keys[r] and whose other cells hold a
\* number that names the table, the row and the column
InputTable(columns, keys, class_col, file_col, tag) ==
    Table(columns,
          [r \in DOMAIN keys |->
              [c \in Range(columns) |->
                  IF c = class_col THEN keys[r].class
                  ELSE IF c = file_col THEN keys[r].file
                  ELSE Num(tag + 10 * r + IndexOf(columns, c))]])

KeyLists(keys, max) == UNION { [1..n -> keys] : n \in 0..max }

---------------------------------------------------------------------------
(* main, with merge_csvs unrolled one match_files call at a step *)

NoMerge ==
    /\ base_df = EmptyTable /\ override_df = EmptyTable
    /\ add_columns = NoColumns /\ result_df = EmptyTable
    /\ used_override_rows = {} /\ i = 0 /\ j = 0 /\ unused_rows = {}
    /\ failed_in = "none"

NoMatch == row1 = <<>> /\ row2 = <<>> /\ matched = "none"

NoRecalc ==
    /\ df = EmptyTable /\ df_alt = EmptyTable /\ change = <<>>
    /\ out1 = EmptyTable /\ out2 = EmptyTable /\ out_alt = EmptyTable

matchVars == <<row1, row2, matched>>
recalcVars == <<df, df_alt, change, out1, out2, out_alt>>
inputVars == <<base_df, override_df, add_columns>>

Init ==
    /\ pc = "load"
    /\ \E lay \in Layouts :
       \E bk \in KeyLists(BaseKeys, MaxBaseRows) :
       \E ok \in KeyLists(OvrKeys, MaxOvrRows) :
          /\ base_df = InputTable(lay.b, bk, cClassNames, cName, 100)
          /\ override_df = InputTable(lay.o, ok, cClass, cFile, 200)
          /\ add_columns = lay.a
    /\ result_df = EmptyTable
    /\ used_override_rows = {}
    /\ i = 0 /\ j = 0
    /\ unused_rows = {}
    /\ failed_in = "none"
    /\ NoMatch /\ NoRecalc

\* Lines 212-220: both files read; an unreadable or malformed file raises
Load ==
    /\ pc = "load"
    /\ \/ pc' = "merge" /\ failed_in' = failed_in
       \/ pc' = "exit1" /\ failed_in' = "load"
    /\ UNCHANGED <<inputVars, result_df, used_override_rows, i, j, unused_rows,
                   matchVars, recalcVars>>

\* Lines 108-119: the copy of the base table, the added columns, the empty
\* set of used rows
MergeStart ==
    /\ pc = "merge"
    /\ result_df' = IF add_columns.given
                    THEN AddColumns(base_df, override_df, add_columns.cols)
                    ELSE base_df
    /\ used_override_rows' = {}
    /\ i' = 1 /\ j' = 1
    /\ pc' = "scan"
    /\ UNCHANGED <<inputVars, unused_rows, failed_in, matchVars, recalcVars>>

\* Lines 124-150: one pass of the inner loop, for base row i and override
\* row j
Scan ==
    /\ pc = "scan"
    /\ i <= Len(base_df.rows) /\ j <= Len(override_df.rows)
    /\ LET m == match_files(base_df.rows[i], override_df.rows[j])
           nxt == after_match(i, j, Len(override_df.rows))
       IN \/ /\ m = "raise"
             /\ pc' = "exit1" /\ failed_in' = "merge"
             /\ UNCHANGED <<result_df, used_override_rows, i, j>>
          \/ /\ m = "true"
             /\ result_df' = merge_match(result_df, base_df, override_df,
                                         add_columns, i, j)
             /\ used_override_rows' = used_add(used_override_rows, i, j)
             /\ i' = nxt[1] /\ j' = nxt[2]
             /\ UNCHANGED <<pc, failed_in>>
          \/ /\ m = "false"
             /\ j' = j + 1
             /\ UNCHANGED <<pc, failed_in, result_df, used_override_rows, i>>
    /\ UNCHANGED <<inputVars, unused_rows, matchVars, recalcVars>>

\* Line 124: the inner loop ends without a match
NextBaseRow ==
    /\ pc = "scan"
    /\ i <= Len(base_df.rows) /\ j > Len(override_df.rows)
    /\ i' = i + 1 /\ j' = 1
    /\ UNCHANGED <<pc, inputVars, result_df, used_override_rows, unused_rows,
                   failed_in, matchVars, recalcVars>>

\* Lines 152-162: the rows never used are reported and the result returned
Report ==
    /\ pc = "scan"
    /\ i > Len(base_df.rows)
    /\ unused_rows' = (1..Len(override_df.rows)) \ used_override_rows
    /\ pc' = "recalc"
    /\ UNCHANGED <<inputVars, result_df, used_override_rows, i, j, failed_in,
                   matchVars, recalcVars>>

---------------------------------------------------------------------------
(* recalculate_qmood_metrics *)

clcc == <<"l", "c", "c">>
cCIS == <<"C", "I", "S">>
cDSC == <<"D", "S", "C">>
cDAM == <<"D", "A", "M">>
cMOA == <<"M", "O", "A">>
cNOP == <<"N", "O", "P">>
cANA == <<"A", "N", "A">>
cWMC == <<"W", "M", "C">>
cNOH == <<"N", "O", "H">>
cMFA == <<"M", "F", "A">>
cMOA2 == <<"M", "O", "A", "2">>
cdf == <<"d", "f">>
cReusability == <<"R", "e", "u", "s", "a", "b", "i", "l", "i", "t", "y">>
cFlexibility == <<"F", "l", "e", "x", "i", "b", "i", "l", "i", "t", "y">>
cUnderstandability == <<"U", "n", "d", "e", "r", "s", "t", "a", "n", "d", "a", "b", "i", "l", "i", "t", "y">>
cFunctionality == <<"F", "u", "n", "c", "t", "i", "o", "n", "a", "l", "i", "t", "y">>
cExtendibility == <<"E", "x", "t", "e", "n", "d", "i", "b", "i", "l", "i", "t", "y">>
cEffectiveness == <<"E", "f", "f", "e", "c", "t", "i", "v", "e", "n", "e", "s", "s">>

(***************************************************************************)
(* A formula string as its tokens: a word (a maximal run of word           *)
(* characters that is no number), a decimal number in hundredths, an       *)
(* operator, or one of the brackets that a substitution inserts.  For a    *)
(* column name made of word characters, re.sub with \b on both sides       *)
(* replaces exactly the word tokens equal to the name; "col in expr" at    *)
(* line 185 is then implied by a match and changes nothing.                *)
(***************************************************************************)
W(name) == [t |-> "word", w |-> name, n |-> 0]
N(hundredths) == [t |-> "number", w |-> <<>>, n |-> hundredths]
Plus == [t |-> "+", w |-> <<>>, n |-> 0]
Minus == [t |-> "-", w |-> <<>>, n |-> 0]
Times == [t |-> "*", w |-> <<>>, n |-> 0]
OpenSub == [t |-> "['", w |-> <<>>, n |-> 0]
CloseSub == [t |-> "']", w |-> <<>>, n |-> 0]

\* Lines 33-40, in the order of the dictionary
QMOOD_FORMULAS ==
    <<[metric |-> cReusability,
       formula |->
       <<Minus, N(25), Times, W(cDCC), Plus, N(25), Times, W(clcc), Plus,
         N(50), Times, W(cCIS), Plus, N(50), Times, W(cDSC)>>],
      [metric |-> cFlexibility,
       formula |->
       <<N(25), Times, W(cDAM), Minus, N(25), Times, W(cDCC), Plus, N(50),
         Times, W(cMOA), Plus, N(50), Times, W(cNOP)>>],
      [metric |-> cUnderstandability,
       formula |->
       <<Minus, N(33), Times, W(cANA), Plus, N(33), Times, W(cDAM), Minus,
         N(33), Times, W(cDCC), Plus, N(33), Times, W(clcc), Minus, N(33),
         Times, W(cNOP), Minus, N(33), Times, W(cWMC), Plus, Minus, N(33),
         Times, W(cDSC)>>],
      [metric |-> cFunctionality,
       formula |->
       <<N(12), Times, W(clcc), Plus, N(22), Times, W(cNOP), Plus, N(22),
         Times, W(cCIS), Plus, N(22), Times, W(cDSC), Plus, N(22), Times,
         W(cNOH)>>],
      [metric |-> cExtendibility,
       formula |->
       <<N(50), Times, W(cANA), Minus, N(50), Times, W(cDCC), Plus, N(50),
         Times, W(cMFA), Plus, N(50), Times, W(cNOP)>>],
      [metric |-> cEffectiveness,
       formula |->
       <<N(20), Times, W(cANA), Plus, N(20), Times, W(cDAM), Plus, N(20),
         Times, W(cMOA), Plus, N(20), Times, W(cMFA), Plus, N(20), Times,
         W(cNOP)>>]>>

\* Line 188: every word token equal to col becomes df['col']
RECURSIVE Substitute(_, _)
Substitute(expr, col) ==
    IF expr = <<>> THEN <<>>
    ELSE IF Head(expr) = W(col)
         THEN <<W(cdf), OpenSub, W(col), CloseSub>> \o Substitute(Tail(expr), col)
         ELSE <<Head(expr)>> \o Substitute(Tail(expr), col)

\* Lines 183-188: the columns of the table substituted one after the other,
\* each into the text the earlier substitutions left
RECURSIVE SubstituteAll(_, _)
SubstituteAll(expr, columns) ==
    IF columns = <<>> THEN expr
    ELSE SubstituteAll(Substitute(expr, Head(columns)), Tail(columns))

(***************************************************************************)
(* eval (line 191) of the substituted text.  The text evaluates when it is *)
(* a signed sum of terms  number * df['col'] ; the terms are returned with *)
(* their signed coefficients.  Anything else raises: a word left in place  *)
(* is an undefined name (NameError), and df['df']['col'] indexes a column  *)
(* by a label its rows do not have (KeyError).                             *)
(***************************************************************************)
RECURSIVE ParseTerms(_, _, _)
ParseTerms(expr, sign, terms) ==
    IF expr = <<>> THEN Raise
    ELSE IF Head(expr) = Minus THEN ParseTerms(Tail(expr), 0 - sign, terms)
    ELSE IF Head(expr) = Plus THEN ParseTerms(Tail(expr), sign, terms)
    ELSE IF /\ Len(expr) >= 6
            /\ expr[1].t = "number" /\ expr[2] = Times /\ expr[3] = W(cdf)
            /\ expr[4] = OpenSub /\ expr[5].t = "word" /\ expr[6] = CloseSub
         THEN LET term == [coef |-> sign * expr[1].n, col |-> expr[5].w]
                  rest == SubSeq(expr, 7, Len(expr))
              IN IF rest = <<>> THEN Ok(Append(terms, term))
                 ELSE IF rest[1] \in {Plus, Minus}
                      THEN ParseTerms(Tail(rest),
                                      IF rest[1] = Minus THEN 0 - 1 ELSE 1,
                                      Append(terms, term))
                      ELSE Raise
         ELSE Raise

RECURSIVE SumTerms(_, _)
SumTerms(terms, row) ==
    IF terms = <<>> THEN 0
    ELSE terms[1].coef * row[terms[1].col].n + SumTerms(Tail(terms), row)

\* The arithmetic on the columns: a string cell raises TypeError, a missing
\* value makes the row's sum missing; values are in hundredths
EvalTerms(terms, t) ==
    LET cols == {terms[k].col : k \in DOMAIN terms}
    IN IF \E c \in cols : ~HasColumn(t, c) THEN Raise
       ELSE IF \E r \in DOMAIN t.rows : \E c \in cols : t.rows[r][c].k = "str"
            THEN Raise
            ELSE Ok([r \in DOMAIN t.rows |->
                       IF \E c \in cols : t.rows[r][c].k = "nan" THEN NaN
                       ELSE Num(SumTerms(terms, t.rows[r]))])

\* Lines 183-191: the values of one metric, or the exception
EvalFormula(formula, t) ==
    LET parsed == ParseTerms(SubstituteAll(formula, t.columns), 1, <<>>)
    IN IF parsed.ok THEN EvalTerms(parsed.v, t) ELSE Raise

\* frame[col] = series: the column replaced, or appended when new
SetSeries(t, col, values) ==
    Table(IF HasColumn(t, col) THEN t.columns ELSE Append(t.columns, col),
          [r \in DOMAIN t.rows |->
              [c \in DOMAIN t.rows[r] \cup {col} |->
                  IF c = col THEN values[r] ELSE t.rows[r][c]]])

\* A slip: the new values are added to the column the table already has
store_metric_accumulate(res, metric, values) ==
    IF HasColumn(res, metric)
    THEN SetSeries(res, metric,
                   [r \in DOMAIN values |->
                       IF values[r].k = "num" /\ res.rows[r][metric].k = "num"
                       THEN Num(values[r].n + res.rows[r][metric].n)
                       ELSE values[r]])
    ELSE SetSeries(res, metric, values)

\* Line 191: result_df[metric] = eval(expr)
store_metric(res, metric, values) == SetSeries(res, metric, values)

\* A slip: the fallback overwrites the values the table came with
on_error_always_zero(res, metric) == SetColumn(res, metric, Num(0))

\* Lines 194-200: the values the table has are kept, a new column is 0.0
on_error(res, metric) ==
    IF HasColumn(res, metric) THEN res ELSE SetColumn(res, metric, Num(0))

\* Lines 178-200, for the formulas from the k-th on
RECURSIVE RecalculateFrom(_, _, _)
RecalculateFrom(k, t, res) ==
    IF k > Len(QMOOD_FORMULAS) THEN res
    ELSE LET f == QMOOD_FORMULAS[k]
             values == EvalFormula(f.formula, t)
         IN RecalculateFrom(k + 1, t,
                IF values.ok THEN store_metric(res, f.metric, values.v)
                ELSE on_error(res, f.metric))

\* Lines 165-202
recalculate_qmood_metrics(t) == RecalculateFrom(1, t, t)

---------------------------------------------------------------------------
(* main, continued *)

\* Line 228
Recalculate ==
    /\ pc = "recalc"
    /\ result_df' = recalculate_qmood_metrics(result_df)
    /\ pc' = "write"
    /\ UNCHANGED <<inputVars, used_override_rows, i, j, unused_rows, failed_in,
                   matchVars, recalcVars>>

\* Lines 232-238: the output file written, or the exception of to_csv
Write ==
    /\ pc = "write"
    /\ \/ pc' = "exit0" /\ failed_in' = failed_in
       \/ pc' = "exit1" /\ failed_in' = "write"
    /\ UNCHANGED <<inputVars, result_df, used_override_rows, i, j, unused_rows,
                   matchVars, recalcVars>>

Next ==
    \/ Load
    \/ MergeStart
    \/ Scan
    \/ NextBaseRow
    \/ Report
    \/ Recalculate
    \/ Write

Spec == Init /\ [][Next]_vars

---------------------------------------------------------------------------
(* match_files alone, on rows drawn from a wider set of cells *)

pA == <<"A">>
pA_JAVA == <<"A", ".", "J", "A", "V", "A">>
pdir == <<"d", "/">>
pdot_java == <<".", "j", "a", "v", "a">>

MatchClasses == {Str(sA), Str(<<"a">>), NaN}
MatchPaths ==
    {Str(pA_java), Str(pd_a_java), Str(pA), Str(pB_java), Str(pA_JAVA),
     Str(pdir), Str(pdot_java), NaN, Num(1)}

\* The rows with some of the two identity columns, a class column first
MatchRows(class_col, file_col) ==
    UNION { { [c \in cols |-> IF c = class_col THEN cl ELSE fl] :
                cl \in MatchClasses, fl \in MatchPaths } :
            cols \in SUBSET {class_col, file_col} }

InitMatch ==
    /\ pc = "match"
    /\ row1 \in MatchRows(cClassNames, cName)
    /\ row2 \in MatchRows(cClass, cFile)
    /\ matched = "none"
    /\ NoMerge /\ NoRecalc

mergeVars == <<base_df, override_df, add_columns, result_df,
               used_override_rows, i, j, unused_rows, failed_in>>

\* Line 125: the call
Match ==
    /\ pc = "match"
    /\ matched' = match_files(row1, row2)
    /\ pc' = "matched"
    /\ UNCHANGED <<row1, row2, mergeVars, recalcVars>>

NextMatch == Match

SpecMatch == InitMatch /\ [][NextMatch]_vars

---------------------------------------------------------------------------
(* recalculate_qmood_metrics alone: on a table, on its own result, and on  *)
(* the table changed in one place                                          *)

MaxRecalcRows == 2

RecalcInputs ==
    <<cDCC, clcc, cCIS, cDSC, cDAM, cMOA, cNOP, cANA, cWMC, cNOH, cMFA>>

QMOOD_METRICS ==
    <<cReusability, cFlexibility, cUnderstandability, cFunctionality,
      cExtendibility, cEffectiveness>>

sx == <<"x">>

Without(seq, gone) == SelectSeq(seq, LAMBDA c : c \notin gone)

\* A table of the input columns but those of `missing`, then the metric
\* columns of `metrics`, then the columns of `extra`; the column text holds a
\* string, the column blank an empty cell in its first row
RecalcTable(n, missing, metrics, extra, text, blank) ==
    LET columns == Without(RecalcInputs, missing) \o metrics \o extra
    IN Table(columns,
             [r \in 1..n |->
                 [c \in Range(columns) |->
                     IF c \in text THEN Str(sx)
                     ELSE IF c \in blank /\ r = 1 THEN NaN
                     ELSE IF c \in Range(RecalcInputs)
                          THEN Num(r + IndexOf(RecalcInputs, c))
                          ELSE Num(7000 + 10 * r + Len(c))]])

RecalcTables ==
    { RecalcTable(n, missing, metrics, extra, text, blank) :
        n \in 0..MaxRecalcRows,
        missing \in {{}, {cNOH}, {cDCC}},
        metrics \in {<<>>, <<cFunctionality>>, <<cReusability, cFunctionality>>},
        extra \in {<<>>, <<cdf>>},
        text \in {{}, {cWMC}},
        blank \in {{}, {cNOP}} }

DropColumn(t, col) ==
    Table(Without(t.columns, {col}),
          [r \in DOMAIN t.rows |->
              [c \in DOMAIN t.rows[r] \ {col} |-> t.rows[r][c]]])

AddColumn(t, col, first) ==
    Table(IF first THEN <<col>> \o t.columns ELSE Append(t.columns, col),
          [r \in DOMAIN t.rows |->
              [c \in DOMAIN t.rows[r] \cup {col} |->
                  IF c = col THEN Num(900 + r) ELSE t.rows[r][c]]])

Changes ==
    [kind : {"drop", "text"}, col : {cNOH, cWMC, cDCC}, first : {FALSE}]
    \cup [kind : {"add"}, col : {cMOA2, cdf, cX}, first : BOOLEAN]

Changed(t, ch) ==
    IF ch.kind = "drop" THEN DropColumn(t, ch.col)
    ELSE IF ch.kind = "text"
         THEN IF HasColumn(t, ch.col) THEN SetColumn(t, ch.col, Str(sx)) ELSE t
         ELSE IF HasColumn(t, ch.col) THEN t ELSE AddColumn(t, ch.col, ch.first)

InitRecalc ==
    /\ pc = "first"
    /\ df \in RecalcTables
    /\ change \in Changes
    /\ df_alt = Changed(df, change)
    /\ out1 = EmptyTable /\ out2 = EmptyTable /\ out_alt = EmptyTable
    /\ NoMerge /\ NoMatch

\* recalculate_qmood_metrics(df)
RecalcFirst ==
    /\ pc = "first"
    /\ out1' = recalculate_qmood_metrics(df)
    /\ pc' = "again"
    /\ UNCHANGED <<df, df_alt, change, out2, out_alt, mergeVars, matchVars>>

\* recalculate_qmood_metrics on the result of the first call
RecalcAgain ==
    /\ pc = "again"
    /\ out2' = recalculate_qmood_metrics(out1)
    /\ pc' = "changed"
    /\ UNCHANGED <<df, df_alt, change, out1, out_alt, mergeVars, matchVars>>

\* recalculate_qmood_metrics on the changed table
RecalcChanged ==
    /\ pc = "changed"
    /\ out_alt' = recalculate_qmood_metrics(df_alt)
    /\ pc' = "done"
    /\ UNCHANGED <<df, df_alt, change, out1, out2, mergeVars, matchVars>>

NextRecalc ==
    \/ RecalcFirst
    \/ RecalcAgain
    \/ RecalcChanged

SpecRecalc == InitRecalc /\ [][NextRecalc]_vars

---------------------------------------------------------------------------
(* What the claims speak of *)

BaseRows == DOMAIN base_df.rows
OvrRows == DOMAIN override_df.rows

\* merge_csvs has returned its result, which nothing has touched since
Returned == pc = "recalc"

\* The override rows that match_files accepts for base row r
Matches(r) ==
    {q \in OvrRows : match_files(base_df.rows[r], override_df.rows[q]) = "true"}

Lowest(set) == CHOOSE q \in set : \A p \in set : q <= p
Highest(set) == CHOOSE q \in set : \A p \in set : p <= q

\* The override columns that hold measurements, whose cells name their row
OvrDataColumns == Range(override_df.columns) \ {cClass, cFile}

\* The override rows of which some measurement stands in row r of the result
Applied(r) ==
    {q \in OvrRows :
        \E c \in Range(result_df.columns) : \E oc \in OvrDataColumns :
            result_df.rows[r][c] = override_df.rows[q][oc]}

\* The columns the result has and the base has not
NewColumns == Range(result_df.columns) \ Range(base_df.columns)

\* The cell of row r, column c before any override: the base cell, or the
\* empty cell of an added column
Before(r, c) == IF HasColumn(base_df, c) THEN base_df.rows[r][c] ELSE NaN

\* Where the claim sends override column oc: to itself when requested, else
\* to the first base column of the same name ignoring case, else nowhere
SameIgnoringCase(a, b) ==
    /\ Len(a) = Len(b)
    /\ \A k \in DOMAIN a :
          \/ a[k] = b[k]
          \/ a[k] \in DOMAIN UpperToLower /\ UpperToLower[a[k]] = b[k]
          \/ b[k] \in DOMAIN UpperToLower /\ UpperToLower[b[k]] = a[k]

Destination(oc) ==
    IF add_columns.given /\ oc \in Range(add_columns.cols) THEN {oc}
    ELSE LET same == {k \in DOMAIN base_df.columns :
                         SameIgnoringCase(base_df.columns[k], oc)}
         IN IF same = {} THEN {} ELSE {base_df.columns[Lowest(same)]}

\* The positions of the override columns sent to result column c
Writers(c) ==
    {k \in DOMAIN override_df.columns : c \in Destination(override_df.columns[k])}

Column(t, c) == [r \in DOMAIN t.rows |-> t.rows[r][c]]

---------------------------------------------------------------------------
(* C1 *)

\* C1: the table merge_csvs builds and returns has exactly the rows of the
\* base table, in the base table's order: row r of the result holds, in each
\* base column, the base cell of row r or a cell of the override table.
C1_RowsOfBase ==
    pc \in {"scan", "recalc"} =>
        /\ Len(result_df.rows) = Len(base_df.rows)
        /\ \A r \in BaseRows : \A c \in Range(base_df.columns) :
              \/ result_df.rows[r][c] = base_df.rows[r][c]
              \/ \E q \in OvrRows : \E oc \in Range(override_df.columns) :
                    result_df.rows[r][c] = override_df.rows[q][oc]

\* One override row has matched two base rows and another none, with more
\* override rows than base rows, and the merge has returned
C1_Witness ==
    /\ Returned
    /\ Len(override_df.rows) > Len(base_df.rows)
    /\ \E q \in OvrRows : q > Len(base_df.rows) /\ \E r \in BaseRows : q \in Applied(r)
    /\ unused_rows # {}

---------------------------------------------------------------------------
(* C4 *)

\* C4: for every base row the override row applied is the lowest-indexed one
\* match_files accepts, and no other; a row applied to an earlier base row is
\* applied again.
C4_FirstMatchApplied ==
    Returned =>
        \A r \in BaseRows :
            Applied(r) = IF Matches(r) = {} THEN {} ELSE {Lowest(Matches(r))}

\* Two base rows received the same override row, which was not the only
\* candidate of the second
C4_Witness ==
    /\ Returned
    /\ \E r1 \in BaseRows : \E r2 \in BaseRows :
          /\ r1 < r2
          /\ Applied(r1) # {} /\ Applied(r1) = Applied(r2)
          /\ Cardinality(Matches(r2)) > 1

---------------------------------------------------------------------------
(* C5 *)

\* C5: a base row no override row matches keeps every base cell, and its
\* cells in the added columns are empty.
C5_UnmatchedRowKept ==
    Returned =>
        \A r \in BaseRows :
            Matches(r) = {} =>
                /\ \A c \in Range(base_df.columns) :
                      result_df.rows[r][c] = base_df.rows[r][c]
                /\ \A c \in NewColumns : result_df.rows[r][c] = NaN

\* An unmatched base row beside a matched one, in a result with an added
\* column
C5_Witness ==
    /\ Returned
    /\ NewColumns # {}
    /\ \E r \in BaseRows : Matches(r) = {}
    /\ \E r \in BaseRows : Matches(r) # {}

---------------------------------------------------------------------------
(* C9 *)

\* The override rows taken as the match of some base row
Taken == {q \in OvrRows : \E r \in BaseRows :
             Matches(r) # {} /\ q = Lowest(Matches(r))}

\* C9: the rows reported are exactly the override rows never taken as a
\* match; used and reported rows are disjoint and cover the override table;
\* the report leaves the result as it is and ends in the return.
C9_UnusedReported ==
    /\ [](Returned =>
            /\ unused_rows = OvrRows \ Taken
            /\ used_override_rows = Taken
            /\ unused_rows \cap used_override_rows = {}
            /\ unused_rows \cup used_override_rows = OvrRows)
    /\ [][pc = "scan" /\ i > Len(base_df.rows) =>
            result_df' = result_df /\ pc' = "recalc"]_vars

\* Some override rows were used and some reported
C9_Witness ==
    /\ Returned
    /\ unused_rows # {}
    /\ used_override_rows # {}
    /\ \E r \in BaseRows : Cardinality(Matches(r)) > 1

---------------------------------------------------------------------------
(* C10 *)

\* C10: in a matched row, a result cell holds the matched override row's value
\* of the last override column sent to it, and its base value (or the empty
\* cell of an added column) when no override column is sent to it; the result
\* has no column but the base columns and the requested columns the override
\* table has.
C10_CellsWritten ==
    Returned =>
        /\ \A r \in BaseRows :
              Matches(r) # {} =>
                  \A c \in Range(result_df.columns) :
                      result_df.rows[r][c] =
                          IF Writers(c) = {} THEN Before(r, c)
                          ELSE override_df.rows[Lowest(Matches(r))]
                                   [override_df.columns[Highest(Writers(c))]]
        /\ Range(result_df.columns) \subseteq
              Range(base_df.columns) \cup
              {c \in Range(add_columns.cols) : HasColumn(override_df, c)}

\* A matched row with a cell written through a name that differs in case, an
\* override column sent nowhere, and a requested column the override lacks
C10_Witness ==
    /\ Returned
    /\ \E r \in BaseRows : Matches(r) # {}
    /\ \E k \in DOMAIN override_df.columns :
          LET oc == override_df.columns[k]
          IN Destination(oc) # {} /\ oc \notin Destination(oc)
    /\ \E k \in DOMAIN override_df.columns :
          Destination(override_df.columns[k]) = {}
    /\ \E c \in Range(add_columns.cols) : ~HasColumn(override_df, c)

---------------------------------------------------------------------------
(* C3 *)

\* C3: once both tables are loaded, only writing the output ends the run with
\* a non-zero status.
C3_OnlyLoadAndWriteFatal ==
    pc = "exit1" => failed_in \in {"load", "write"}

---------------------------------------------------------------------------
(* C2 *)

\* Both rows have the class-name fields
ClassRuleApplies == cClassNames \in DOMAIN row1 /\ cClass \in DOMAIN row2

\* The two class names are the same text
ClassNamesEqual ==
    /\ row1[cClassNames].k = "str" /\ row2[cClass].k = "str"
    /\ row1[cClassNames].s = row2[cClass].s

\* x is the file name of path s without its directories and without a final
\* ".java"
IsStem(x, s) ==
    \E from \in 1..(Len(s) + 1) :
        /\ from = 1 \/ s[from - 1] = "/"
        /\ \A k \in from..Len(s) : s[k] # "/"
        /\ LET name == SubSeq(s, from, Len(s))
           IN \/ name = x \o DotJava
              \/ name = x /\ \A y \in {SubSeq(name, 1, n) : n \in 0..Len(name)} :
                                 name # y \o DotJava

Pieces(s) == {SubSeq(s, a, b) : a \in 1..(Len(s) + 1), b \in 0..Len(s)}

\* Both rows have the path fields, both hold text, and the file names agree
\* when case is ignored
FileNamesAgree ==
    /\ cName \in DOMAIN row1 /\ cFile \in DOMAIN row2
    /\ row1[cName].k = "str" /\ row2[cFile].k = "str"
    /\ \E x \in Pieces(row1[cName].s) : \E y \in Pieces(row2[cFile].s) :
          /\ IsStem(x, row1[cName].s)
          /\ IsStem(y, row2[cFile].s)
          /\ SameIgnoringCase(x, y)

\* Both class-name cells hold text
ClassCellsAreText ==
    row1[cClassNames].k = "str" /\ row2[cClass].k = "str"

\* C2 as claimed: when the class-name rule applies (here to two cells of
\* text), the rows match exactly when the class names are equal, whatever the
\* paths are.
C2_FirstRuleOnly ==
    pc = "matched" /\ ClassRuleApplies /\ ClassCellsAreText =>
        (matched = "true" <=> ClassNamesEqual)

\* C2 as amended: the rows match exactly when the class-name rule applies
\* with equal names, or the file names of Name and file agree ignoring case;
\* the file names are compared also when the class-name rule applies and the
\* class names differ.
C2_ClassOrFile ==
    pc = "matched" =>
        (matched = "true" <=>
            (ClassRuleApplies /\ ClassNamesEqual) \/ FileNamesAgree)

\* The class names differ and the rows match by their paths
C2_Witness ==
    /\ pc = "matched"
    /\ ClassRuleApplies /\ ClassCellsAreText /\ ~ClassNamesEqual
    /\ matched = "true"

---------------------------------------------------------------------------
(* C6, C7, C8 *)

\* The column names a formula mentions
Mentioned(formula) ==
    {formula[k].w : k \in {n \in DOMAIN formula : formula[n].t = "word"}}

HasAllMetrics(t) == \A k \in DOMAIN QMOOD_METRICS : HasColumn(t, QMOOD_METRICS[k])

\* C6: with a column dropped or turned into text, each metric whose formula
\* mentions it keeps the values the table came with, or is 0.0 in every row
\* when the table had no such column; all six metrics are there, and the
\* others have the values they have without the change.
C6_FailureIsLocal ==
    pc = "done" /\ change.kind \in {"drop", "text"} =>
        /\ HasAllMetrics(out_alt)
        /\ Len(out_alt.rows) = Len(df_alt.rows)
        /\ \A k \in DOMAIN QMOOD_FORMULAS :
              LET m == QMOOD_FORMULAS[k].metric
              IN IF change.col \in Mentioned(QMOOD_FORMULAS[k].formula)
                 THEN Column(out_alt, m) =
                          IF HasColumn(df_alt, m) THEN Column(df_alt, m)
                          ELSE [r \in DOMAIN df_alt.rows |-> Num(0)]
                 ELSE Column(out_alt, m) = Column(out1, m)

\* NOH is dropped from a table that came with Functionality values: these are
\* kept, they differ from the recomputed ones, and Reusability is computed
C6_Witness ==
    /\ pc = "done"
    /\ change = [kind |-> "drop", col |-> cNOH, first |-> FALSE]
    /\ HasColumn(df, cNOH) /\ HasColumn(df, cFunctionality)
    /\ Len(df.rows) > 0
    /\ Column(out_alt, cFunctionality) = Column(df, cFunctionality)
    /\ Column(out1, cFunctionality) # Column(df, cFunctionality)
    /\ ~HasColumn(df, cReusability)
    /\ \E r \in DOMAIN out_alt.rows : out_alt.rows[r][cReusability].n # 0

\* C7: a column no formula mentions changes no metric and is not altered.
C7_OtherColumnsInert ==
    pc = "done" /\ change.kind = "add" /\ ~HasColumn(df, change.col) =>
        /\ \A k \in DOMAIN QMOOD_METRICS :
              Column(out_alt, QMOOD_METRICS[k]) = Column(out1, QMOOD_METRICS[k])
        /\ Column(out_alt, change.col) = Column(df_alt, change.col)

\* C8: recalculating the recalculated table changes nothing.
C8_Idempotent ==
    pc \in {"changed", "done"} => out2 = out1

\* Every input column is there and numeric, and the first pass computed
\* values the table did not have
C8_Witness ==
    /\ pc = "done"
    /\ \A k \in DOMAIN RecalcInputs : HasColumn(df, RecalcInputs[k])
    /\ Len(df.rows) > 0
    /\ out1 # df
    /\ HasColumn(df, cReusability)
    /\ \A k \in DOMAIN QMOOD_METRICS : \A r \in DOMAIN out1.rows :
          out1.rows[r][QMOOD_METRICS[k]].k = "num"
    /\ \E r \in DOMAIN out1.rows :
          out1.rows[r][cReusability] # df.rows[r][cReusability]

===========================================================================
